---- MODULE Spec2Model ----
(***************************************************************************)
(* Verification model of the llmbootcampproject repository:                *)
(*   - the agentic-RAG graph (classify_mode -> retrieve -> generate)       *)
(*     of RAGHelper.build_simple_agentic_rag,                              *)
(*   - the memory package (ConversationMemory, SemanticMemory,             *)
(*     MemoryManager),                                                     *)
(*   - the get_agent singleton of agent_service.                           *)
(* Strings the code inspects (questions, page contents) are sequences of   *)
(* one-character strings, so that lower(), substring tests, join() and     *)
(* strip() are computed and not assumed.                                   *)
(***************************************************************************)
EXTENDS Integers, Sequences, FiniteSets, TLC

VARIABLES
    \* ---- agentic RAG graph ----
    pc,          \* node the running invocation is at: "idle", a node name, "END", "raised"
    state,       \* the RAGState dict flowing through the graph
    input,       \* the state the invocation was started with
    trace,       \* nodes executed by the current invocation, in order
    retrieved,   \* what retriever.invoke returned in the current invocation
    llmCalls,    \* number of llm.invoke calls made by the current invocation
    llmPrompt,   \* prompt template of the last llm.invoke call ("none" if none)
    \* ---- memory package ----
    memories,     \* MemoryManager.memories: the enabled memory types, in insertion order
    max_messages, \* ConversationMemory.max_messages
    messages,     \* ConversationMemory.messages
    added,        \* every message appended to ConversationMemory since the last clear
    clock,        \* datetime.now() as a counter
    store,        \* the items of SemanticMemory.store
    ret,          \* outcome of the last memory operation
    log,          \* memory add_message calls made by the last MemoryManager.add_message
    \* ---- agent_service ----
    global_agent, \* the module global _global_agent: None or an agent object
    agentObjs,    \* the agent objects constructed so far
    calls,        \* the get_agent coroutines in flight, one per caller
    returns,      \* what the completed get_agent calls returned, in order
    initStarted,  \* number of initialize() calls made by get_agent
    \* ---- prompt optimization server ----
    optimization_history, \* the module global optimization_history
    history_file,         \* the JSON content of OPTIMIZATION_FILE
    optClock,             \* datetime.now() of the server, as a counter
    recorded,      \* optimized prompts of the successful optimizations since the last clear
    optRet,        \* outcome of the last tool call of the server
    \* ---- RAGHelper.build_vectorstore ----
    vsFiles,       \* the uploaded files passed to build_vectorstore
    docxLoader,    \* whether the import of Docx2txtLoader succeeded
    vsResult,      \* outcome of the build_vectorstore call
    \* ---- Streamlit chat pages ----
    page,          \* which page script runs: "rag", "agent" or "mcp"
    session_state, \* st.session_state of the page
    widgets,       \* what the browser shows and holds: uploader content, chat input, keys
    run,           \* the script run in progress
    openLoops,     \* event loops created by the page and not closed
    obs            \* backend invocations observed for the latest user query

ragVars == <<pc, state, input, trace, retrieved, llmCalls, llmPrompt>>

memVars == <<memories, max_messages, messages, added, clock, store, ret, log>>

agentVars == <<global_agent, agentObjs, calls, returns, initStarted>>

optVars == <<optimization_history, history_file, optClock, recorded, optRet>>

vsVars == <<vsFiles, docxLoader, vsResult>>

pageVars == <<page, session_state, widgets, run, openLoops, obs>>

vars == <<pc, state, input, trace, retrieved, llmCalls, llmPrompt,
          memories, max_messages, messages, added, clock, store, ret, log,
          global_agent, agentObjs, calls, returns, initStarted,
          optimization_history, history_file, optClock, recorded, optRet,
          vsFiles, docxLoader, vsResult,
          page, session_state, widgets, run, openLoops, obs>>

-----------------------------------------------------------------------------
(* Bounds *)

MaxFrags == 2      \* a question is made of at most this many lexicon fragments
MaxDocs == 9       \* the retriever returns at most this many documents
MaxMaxMessages == 2  \* max_messages of a ConversationMemory is drawn from 0..MaxMaxMessages
MaxAdds == 3       \* messages added to the memories in one run
MaxLimit == 1      \* limit arguments are drawn from 0..MaxLimit
MaxStore == 2      \* items the semantic store holds
MaxAgents == 2     \* agent objects constructed in one run
MaxCalls == 4      \* get_agent calls made in one run
MaxOpts == 3       \* optimization tool calls made in one run
MaxFiles == 3      \* files passed to build_vectorstore
MaxPrompts == 2    \* prompts the user submits on a page
MaxAttempts == 2   \* backend invocations followed for one user query

-----------------------------------------------------------------------------
(* Character strings *)

UpperToLower ==
    ("A" :> "a") @@ ("B" :> "b") @@ ("C" :> "c") @@ ("D" :> "d") @@ ("E" :> "e") @@
    ("F" :> "f") @@ ("G" :> "g") @@ ("H" :> "h") @@ ("I" :> "i") @@ ("J" :> "j") @@
    ("K" :> "k") @@ ("L" :> "l") @@ ("M" :> "m") @@ ("N" :> "n") @@ ("O" :> "o") @@
    ("P" :> "p") @@ ("Q" :> "q") @@ ("R" :> "r") @@ ("S" :> "s") @@ ("T" :> "t") @@
    ("U" :> "u") @@ ("V" :> "v") @@ ("W" :> "w") @@ ("X" :> "x") @@ ("Y" :> "y") @@
    ("Z" :> "z")

\* str.lower()
Lower(s) == [i \in 1..Len(s) |-> IF s[i] \in DOMAIN UpperToLower THEN UpperToLower[s[i]] ELSE s[i]]

\* w in q
Contains(q, w) == \E i \in 0..(Len(q) - Len(w)) : SubSeq(q, i + 1, i + Len(w)) = w

Whitespace == {" ", "\n", "\t", "\r", "\f"}

\* a blank test that forgets strip(): only the empty string counts
IsBlankNoStrip(s) == s = <<>>

\* not s.strip()
IsBlank(s) == \A i \in 1..Len(s) : s[i] \in Whitespace

RECURSIVE Join(_, _)
\* sep.join(parts)
Join(parts, sep) ==
    IF Len(parts) = 0 THEN <<>>
    ELSE IF Len(parts) = 1 THEN parts[1]
    ELSE parts[1] \o sep \o Join(Tail(parts), sep)

RECURSIVE Flatten(_)
Flatten(frags) == IF frags = <<>> THEN <<>> ELSE Head(frags) \o Flatten(Tail(frags))

\* seq[:k] for k >= 0
Prefix(seq, k) == SubSeq(seq, 1, IF k < Len(seq) THEN k ELSE Len(seq))

-----------------------------------------------------------------------------
(* Inputs of the RAG graph *)

Lexicon == {
    <<"s","u","m">>,
    <<"m","a","r","y">>,
    <<"S","u","m","m","a","r","i","z","e">>,
    <<"o","v","e","r","v","i","e","w">>,
    <<"W","H","O">>,
    <<"u","p","d","a","t","e">>,
    <<" ">> }

SeqsUpTo(S, n) == UNION {[1..m -> S] : m \in 0..n}

Questions == {Flatten(f) : f \in SeqsUpTo(Lexicon, MaxFrags)}

Modes == {"summary", "fact"}

BlankPatterns == {"none", "all", "first", "rest"}

PatternContent(p, i) ==
    CASE p = "none"  -> <<"t","e","x","t">>
      [] p = "all"   -> IF i % 2 = 1 THEN <<" ">> ELSE <<"\n", "\t">>
      [] p = "first" -> IF i = 1 THEN <<>> ELSE <<"t","e","x","t">>
      [] p = "rest"  -> IF i = 1 THEN <<"t","e","x","t">> ELSE <<" ">>

\* the result lists a retriever may produce: n ranked documents
RetrieverResults ==
    {[i \in 1..n |-> [id |-> i, page_content |-> PatternContent(p, i)]] :
        n \in 0..MaxDocs, p \in BlankPatterns}

-----------------------------------------------------------------------------
(* build_simple_agentic_rag *)

SUMMARY_HINTS == {
    <<"s","u","m","m","a","r","i","z","e">>,
    <<"s","u","m","m","a","r","y">>,
    <<"o","v","e","r","v","i","e","w">>,
    <<"k","e","y"," ","p","o","i","n","t","s">>,
    <<"b","u","l","l","e","t">>,
    <<"s","y","n","t","h","e","s","i","z","e">> }

FACT_HINTS == {
    <<"w","h","e","n">>,
    <<"d","a","t","e">>,
    <<"w","h","o">>,
    <<"w","h","e","r","e">>,
    <<"a","m","o","u","n","t">>,
    <<"t","o","t","a","l">>,
    <<"p","r","i","c","e">>,
    <<"f","i","g","u","r","e">>,
    <<"s","p","e","c","i","f","i","c">>,
    <<"e","x","a","c","t">> }

AnyHint(q, hints) == \E w \in hints : Contains(q, w)

\* classify_mode that keeps the incoming mode when no hint matches
classify_modeKeepInput(st) ==
    LET q == Lower(st.question) IN
    IF AnyHint(q, SUMMARY_HINTS) /\ ~AnyHint(q, FACT_HINTS) THEN "summary"
    ELSE IF AnyHint(q, FACT_HINTS) THEN "fact"
    ELSE st.mode

\* the mode classify_mode computes for a state
classify_mode(st) ==
    LET q == Lower(st.question) IN
    IF AnyHint(q, SUMMARY_HINTS) /\ ~AnyHint(q, FACT_HINTS) THEN "summary"
    ELSE IF AnyHint(q, FACT_HINTS) THEN "fact"
    ELSE IF Contains(q, <<"s","u","m","m","a","r","y">>)
            \/ Contains(q, <<"s","u","m","m","a","r","i","z","e">>) THEN "summary"
    ELSE "fact"

\* k of retrieve
TopK(mode) == IF mode = "summary" THEN 8 ELSE 3

\* retrieve that forgets to cut the result to k
retrieveAll(st, docs) == docs

\* the documents retrieve stores for a retriever result
retrieve(st, docs) == Prefix(docs, TopK(st.mode))

CtxSeparator == <<"\n", "\n", "-", "-", "-", "\n", "\n">>

\* ctx of generate
Context(st) == Join([i \in 1..Len(st.documents) |-> st.documents[i].page_content], CtxSeparator)

NoInfoText == "I couldn't find enough information in the documents to answer that."

\* answers the LLM can give
LLMAnswers == {"answer", ""}

\* graph wiring: entry point and edges
EntryPoint == "classify_mode"

\* a wiring whose first edge bypasses retrieve
EdgesSkipRetrieve ==
    ("classify_mode" :> "generate") @@ ("retrieve" :> "generate") @@ ("generate" :> "END")

Edges == ("classify_mode" :> "retrieve") @@ ("retrieve" :> "generate") @@ ("generate" :> "END")

Nodes == {"classify_mode", "retrieve", "generate"}

\* app.invoke(input): start a run of the compiled graph
Invoke(q, m) ==
    /\ pc = "idle"
    /\ UNCHANGED <<memVars, agentVars, optVars, vsVars, pageVars>>
    /\ input' = [question |-> q, mode |-> m, documents |-> <<>>, generation |-> ""]
    /\ state' = input'
    /\ pc' = EntryPoint
    /\ trace' = <<>>
    /\ retrieved' = <<>>
    /\ llmCalls' = 0
    /\ llmPrompt' = "none"

ClassifyStep ==
    /\ pc = "classify_mode"
    /\ UNCHANGED <<memVars, agentVars, optVars, vsVars, pageVars>>
    /\ state' = [state EXCEPT !.mode = classify_mode(state)]
    /\ trace' = Append(trace, "classify_mode")
    /\ pc' = Edges["classify_mode"]
    /\ UNCHANGED <<input, retrieved, llmCalls, llmPrompt>>

RetrieveStep(docs) ==
    /\ pc = "retrieve"
    /\ UNCHANGED <<memVars, agentVars, optVars, vsVars, pageVars>>
    /\ retrieved' = docs
    /\ state' = [state EXCEPT !.documents = retrieve(state, docs)]
    /\ trace' = Append(trace, "retrieve")
    /\ pc' = Edges["retrieve"]
    /\ UNCHANGED <<input, llmCalls, llmPrompt>>

\* retriever.invoke raises: the exception leaves the graph run
RetrieveRaise ==
    /\ pc = "retrieve"
    /\ UNCHANGED <<memVars, agentVars, optVars, vsVars, pageVars>>
    /\ trace' = Append(trace, "retrieve")
    /\ pc' = "raised"
    /\ UNCHANGED <<state, input, retrieved, llmCalls, llmPrompt>>

\* generate with a blank context: no LLM call
GenerateNoContext ==
    /\ pc = "generate"
    /\ IsBlank(Context(state))
    /\ UNCHANGED <<memVars, agentVars, optVars, vsVars, pageVars>>
    /\ state' = [state EXCEPT !.generation = NoInfoText]
    /\ trace' = Append(trace, "generate")
    /\ pc' = Edges["generate"]
    /\ UNCHANGED <<input, retrieved, llmCalls, llmPrompt>>

\* generate with context: one llm.invoke with the prompt of the mode
GenerateLLM(answer) ==
    /\ pc = "generate"
    /\ ~IsBlank(Context(state))
    /\ UNCHANGED <<memVars, agentVars, optVars, vsVars, pageVars>>
    /\ llmCalls' = llmCalls + 1
    /\ llmPrompt' = IF state.mode = "summary" THEN "gen_prompt_summary" ELSE "gen_prompt_fact"
    /\ state' = [state EXCEPT !.generation = answer]
    /\ trace' = Append(trace, "generate")
    /\ pc' = Edges["generate"]
    /\ UNCHANGED <<input, retrieved>>

\* llm.invoke raises
GenerateRaise ==
    /\ pc = "generate"
    /\ ~IsBlank(Context(state))
    /\ UNCHANGED <<memVars, agentVars, optVars, vsVars, pageVars>>
    /\ llmCalls' = llmCalls + 1
    /\ llmPrompt' = IF state.mode = "summary" THEN "gen_prompt_summary" ELSE "gen_prompt_fact"
    /\ trace' = Append(trace, "generate")
    /\ pc' = "raised"
    /\ UNCHANGED <<state, input, retrieved>>

\* invoke returns (pc = "END") or propagates the exception (pc = "raised")
\* to the caller; the graph is ready for the next invocation
Return ==
    /\ pc \in {"END", "raised"}
    /\ UNCHANGED <<memVars, agentVars, optVars, vsVars, pageVars>>
    /\ pc' = "idle"
    /\ state' = [question |-> <<>>, mode |-> "fact", documents |-> <<>>, generation |-> ""]
    /\ input' = state'
    /\ trace' = <<>>
    /\ retrieved' = <<>>
    /\ llmCalls' = 0
    /\ llmPrompt' = "none"

InitRAG ==
    /\ pc = "idle"
    /\ state = [question |-> <<>>, mode |-> "fact", documents |-> <<>>, generation |-> ""]
    /\ input = state
    /\ trace = <<>>
    /\ retrieved = <<>>
    /\ llmCalls = 0
    /\ llmPrompt = "none"

NextRAG ==
    \/ \E q \in Questions, m \in Modes : Invoke(q, m)
    \/ ClassifyStep
    \/ \E docs \in RetrieverResults : RetrieveStep(docs)
    \/ RetrieveRaise
    \/ GenerateNoContext
    \/ \E a \in LLMAnswers : GenerateLLM(a)
    \/ GenerateRaise
    \/ Return

-----------------------------------------------------------------------------
(* memory package *)

\* a dict key that is absent
Missing == "<missing>"

\* msg.get("timestamp") of a message without timestamp
NoTimestamp == 0 - 1

NoRet == [op |-> "none", raised |-> FALSE, value |-> <<>>, args |-> <<>>, failed |-> {}]

\* seq[start:] with Python's index rules (negative start counts from the end)
PySliceFrom(seq, start) ==
    LET n == Len(seq)
        from == IF start < 0 THEN (IF n + start < 0 THEN 0 ELSE n + start)
                ELSE (IF start > n THEN n ELSE start)
    IN SubSeq(seq, from + 1, n)

\* the messages callers pass to add_message
MessageInputs == {
    [role |-> "user", content |-> "a", timestamp |-> NoTimestamp],
    [role |-> "assistant", content |-> "b", timestamp |-> 0],
    [role |-> Missing, content |-> "a", timestamp |-> NoTimestamp] }

\* ConversationMemory.add_message: the message as stored
Stamped(msg) == IF msg.timestamp = NoTimestamp THEN [msg EXCEPT !.timestamp = clock] ELSE msg

\* an eviction that keeps the first max messages instead of the last
ConvAppendKeepOldest(msgs, msg, max) ==
    LET appended == Append(msgs, msg) IN
    IF Len(appended) > max THEN Prefix(appended, max) ELSE appended

\* ConversationMemory.add_message: the messages list after the call
ConvAppend(msgs, msg, max) ==
    LET appended == Append(msgs, msg) IN
    IF Len(appended) > max THEN PySliceFrom(appended, 0 - max) ELSE appended

\* ConversationMemory.get_relevant_context: recent_messages
RecentMessages(msgs, limit) ==
    IF limit <= Len(msgs) THEN PySliceFrom(msgs, 0 - limit) ELSE msgs

\* msg["role"] / msg["content"] raise KeyError on a message without the key
ConvContextRaises(msgs, limit) ==
    \E i \in 1..Len(RecentMessages(msgs, limit)) :
        \/ RecentMessages(msgs, limit)[i].role = Missing
        \/ RecentMessages(msgs, limit)[i].content = Missing

\* ConversationMemory.get_relevant_context: the context returned
ConvContext(msgs, limit) ==
    LET recent == RecentMessages(msgs, limit) IN
    [i \in 1..Len(recent) |->
        [role |-> recent[i].role, content |-> recent[i].content,
         timestamp |-> recent[i].timestamp, type |-> "conversation", key |-> Missing]]

\* SemanticMemory.get_relevant_context: store.search(limit=limit) converted
SemContext(items, limit) ==
    LET found == Prefix(items, limit) IN
    [i \in 1..Len(found) |->
        [role |-> "system", content |-> found[i].content,
         timestamp |-> found[i].updated_at, type |-> "semantic", key |-> found[i].key]]

InSeq(x, seq) == \E i \in 1..Len(seq) : seq[i] = x

RECURSIVE ExtendUnique(_, _)
\* for ctx in sem_context: if ctx not in unified_context: unified_context.append(ctx)
ExtendUnique(unified, sem) ==
    IF sem = <<>> THEN unified
    ELSE ExtendUnique(IF InSeq(Head(sem), unified) THEN unified ELSE Append(unified, Head(sem)),
                      Tail(sem))

Enabled(t) == InSeq(t, memories)

\* ---- ConversationMemory ----

\* ConversationMemory.add_message(msg)
ConvAddMessage(msg) ==
    /\ clock <= MaxAdds
    /\ messages' = ConvAppend(messages, Stamped(msg), max_messages)
    /\ added' = Append(added, Stamped(msg))
    /\ clock' = clock + 1
    /\ ret' = [NoRet EXCEPT !.op = "conv.add_message", !.args = <<msg>>]
    /\ UNCHANGED <<memories, max_messages, store, log>>
    /\ UNCHANGED <<ragVars, agentVars, optVars, vsVars, pageVars>>

\* ConversationMemory.clear_memory()
ConvClearMemory ==
    /\ messages' = <<>>
    /\ added' = <<>>
    /\ ret' = [NoRet EXCEPT !.op = "conv.clear_memory"]
    /\ UNCHANGED <<memories, max_messages, clock, store, log>>
    /\ UNCHANGED <<ragVars, agentVars, optVars, vsVars, pageVars>>

\* ConversationMemory.get_relevant_context(query, limit)
ConvGetRelevantContext(limit) ==
    /\ ret' = IF ConvContextRaises(messages, limit)
              THEN [NoRet EXCEPT !.op = "conv.get_relevant_context", !.args = <<limit>>,
                                 !.raised = TRUE]
              ELSE [NoRet EXCEPT !.op = "conv.get_relevant_context", !.args = <<limit>>,
                                 !.value = ConvContext(messages, limit)]
    /\ UNCHANGED <<memories, max_messages, messages, added, clock, store, log>>
    /\ UNCHANGED <<ragVars, agentVars, optVars, vsVars, pageVars>>

\* ---- SemanticMemory ----

\* what the extraction agent (self.manager.invoke) does with a message
SemOutcomes == {"stored", "nothing", "raised"}

\* SemanticMemory.add_message: the store after the call; every exception is caught
SemAdd(items, msg, outcome) ==
    IF msg.role = Missing \/ msg.content = Missing THEN items
    ELSE IF outcome = "stored" /\ Len(items) < MaxStore
         THEN Append(items, [key |-> Len(items) + 1, content |-> msg.content, updated_at |-> clock])
         ELSE items

\* SemanticMemory.get_relevant_context: [] when store.search raises
SemRetrieve(items, limit, fails) == IF fails THEN <<>> ELSE SemContext(items, limit)

\* ---- MemoryManager ----

\* a loop that leaves after its first iteration
FanOutOrderFirstOnly(mems) == Prefix(mems, 1)

\* for memory in self.memories.values(): the memories the loop visits, in order
FanOutOrder(mems) == mems

RECURSIVE FanOutMessages(_, _, _)
\* the conversation messages after add_message went through the memories in order
FanOutMessages(mems, msgs, msg) ==
    IF mems = <<>> THEN msgs
    ELSE FanOutMessages(Tail(mems),
                        IF Head(mems) = "conversation"
                        THEN ConvAppend(msgs, Stamped(msg), max_messages) ELSE msgs,
                        msg)

RECURSIVE FanOutStore(_, _, _, _)
\* the semantic store after add_message went through the memories in order
FanOutStore(mems, items, msg, outcome) ==
    IF mems = <<>> THEN items
    ELSE FanOutStore(Tail(mems),
                     IF Head(mems) = "semantic"
                     THEN SemAdd(items, IF Enabled("conversation") THEN Stamped(msg) ELSE msg, outcome)
                     ELSE items,
                     msg, outcome)

\* MemoryManager.add_message(message): for memory in self.memories.values()
MgrAddMessage(msg, outcome) ==
    /\ clock <= MaxAdds
    /\ messages' = FanOutMessages(FanOutOrder(memories), messages, msg)
    /\ added' = IF InSeq("conversation", FanOutOrder(memories))
                THEN Append(added, Stamped(msg)) ELSE added
    /\ store' = FanOutStore(FanOutOrder(memories), store, msg, outcome)
    /\ log' = FanOutOrder(memories)
    /\ clock' = clock + 1
    /\ ret' = [NoRet EXCEPT !.op = "add_message", !.args = <<msg>>]
    /\ UNCHANGED <<memories, max_messages>>
    /\ UNCHANGED <<ragVars, agentVars, optVars, vsVars, pageVars>>

\* one iteration of the loop of get_comprehensive_context: did retrieval raise
ContextRaises(t, limit, semFails) ==
    IF t = "conversation" THEN ConvContextRaises(messages, limit) ELSE FALSE

\* a handler in which one failing retrieval empties every entry
ContextOfAbortAll(t, limit, semFails) ==
    IF ConvContextRaises(messages, limit) \/ semFails THEN <<>>
    ELSE IF t = "conversation" THEN ConvContext(messages, limit)
    ELSE SemContext(store, limit)

\* one iteration of the loop of get_comprehensive_context: the value stored under the key
ContextOf(t, limit, semFails) ==
    IF t = "conversation"
    THEN (IF ConvContextRaises(messages, limit) THEN <<>> ELSE ConvContext(messages, limit))
    ELSE SemRetrieve(store, limit, semFails)

\* MemoryManager.get_comprehensive_context(query, limit)
MgrGetComprehensiveContext(limit, semFails) ==
    /\ ret' = [NoRet EXCEPT
                 !.op = "get_comprehensive_context",
                 !.args = <<limit>>,
                 !.value = [i \in 1..Len(memories) |->
                              [type |-> memories[i],
                               context |-> ContextOf(memories[i], limit, semFails)]],
                 !.failed = {memories[i] : i \in {j \in 1..Len(memories) :
                                \/ ContextRaises(memories[j], limit, semFails)
                                \/ (memories[j] = "semantic" /\ semFails)}}]
    /\ UNCHANGED <<memories, max_messages, messages, added, clock, store, log>>
    /\ UNCHANGED <<ragVars, agentVars, optVars, vsVars, pageVars>>

\* the list get_unified_context builds
UnifiedContext(convLimit, semLimit, semFails) ==
    LET conv == IF Enabled("conversation") THEN ConvContext(messages, convLimit) ELSE <<>>
    IN IF Enabled("semantic")
       THEN ExtendUnique(conv, SemRetrieve(store, semLimit, semFails))
       ELSE conv

\* MemoryManager.get_unified_context(query, conversation_limit, semantic_limit)
MgrGetUnifiedContext(convLimit, semLimit, semFails) ==
    /\ ret' = IF Enabled("conversation") /\ ConvContextRaises(messages, convLimit)
              THEN [NoRet EXCEPT !.op = "get_unified_context",
                                 !.args = <<convLimit, semLimit>>, !.raised = TRUE]
              ELSE [NoRet EXCEPT !.op = "get_unified_context",
                                 !.args = <<convLimit, semLimit>>,
                                 !.value = UnifiedContext(convLimit, semLimit, semFails),
                                 !.failed = IF Enabled("semantic") /\ semFails
                                            THEN {"semantic"} ELSE {}]
    /\ UNCHANGED <<memories, max_messages, messages, added, clock, store, log>>
    /\ UNCHANGED <<ragVars, agentVars, optVars, vsVars, pageVars>>

\* MemoryManager.clear_all_memory(): SemanticMemory.clear_memory swallows a store failure
MgrClearAllMemory(semFails) ==
    /\ messages' = IF Enabled("conversation") THEN <<>> ELSE messages
    /\ added' = IF Enabled("conversation") THEN <<>> ELSE added
    /\ store' = IF Enabled("semantic") /\ ~semFails THEN <<>> ELSE store
    /\ ret' = [NoRet EXCEPT !.op = "clear_all_memory"]
    /\ UNCHANGED <<memories, max_messages, clock, log>>
    /\ UNCHANGED <<ragVars, agentVars, optVars, vsVars, pageVars>>

-----------------------------------------------------------------------------
(* agent_service: get_agent *)

None == 0

Callers == {"c1", "c2"}

ApiKeys == {"key1", "key2"}

ServerUrls == {"url1", "url2"}

IdleCall == [pc |-> "idle", agent |-> None]

\* a get_agent without the None check
NeedsNewAgentAlways == TRUE

\* if _global_agent is None
NeedsNewAgent == global_agent = None

\* get_agent up to its first await: the check, the construction and the assignment
\* of the global happen without suspension; initialize() is awaited
GetAgentEnter(c, key, url) ==
    /\ calls[c].pc = "idle"
    /\ Len(returns) + Cardinality({d \in Callers : calls[d].pc # "idle"}) < MaxCalls
    /\ IF NeedsNewAgent
       THEN /\ Len(agentObjs) < MaxAgents
            /\ agentObjs' = Append(agentObjs,
                               [openai_api_key |-> key, server_url |-> url, agent |-> None])
            /\ global_agent' = Len(agentObjs) + 1
            /\ calls' = [calls EXCEPT ![c] = [pc |-> "initialize", agent |-> Len(agentObjs) + 1]]
            /\ initStarted' = initStarted + 1
            /\ UNCHANGED returns
       ELSE /\ returns' = Append(returns,
                             [agent |-> global_agent,
                              initialized |-> agentObjs[global_agent].agent # None,
                              args |-> <<key, url>>])
            /\ UNCHANGED <<global_agent, agentObjs, calls, initStarted>>
    /\ UNCHANGED <<ragVars, memVars, optVars, vsVars, pageVars>>

\* MCPAgent.initialize completes: self.agent is set; get_agent returns _global_agent
InitializeOk(c) ==
    /\ calls[c].pc = "initialize"
    /\ agentObjs' = [agentObjs EXCEPT ![calls[c].agent].agent = 1]
    /\ returns' = Append(returns,
                     [agent |-> global_agent,
                      initialized |-> agentObjs'[global_agent].agent # None,
                      args |-> <<agentObjs[calls[c].agent].openai_api_key,
                                 agentObjs[calls[c].agent].server_url>>])
    /\ calls' = [calls EXCEPT ![c] = IdleCall]
    /\ UNCHANGED <<global_agent, initStarted>>
    /\ UNCHANGED <<ragVars, memVars, optVars, vsVars, pageVars>>

\* MCPAgent.initialize raises (client.get_tools fails): the exception leaves get_agent
InitializeRaise(c) ==
    /\ calls[c].pc = "initialize"
    /\ calls' = [calls EXCEPT ![c] = IdleCall]
    /\ UNCHANGED <<global_agent, agentObjs, returns, initStarted>>
    /\ UNCHANGED <<ragVars, memVars, optVars, vsVars, pageVars>>

-----------------------------------------------------------------------------
(* project_code/server.py: prompt optimization tools *)

\* the openai_api_key arguments
OptApiKeys == {
    <<>>,
    <<" ">>,
    <<"b","a","d">>,
    <<" ","s","k","-","1">>,
    <<"s","k","-","1">> }

\* api_key.startswith("sk-")
StartsWithSk(key) == Prefix(key, 3) = <<"s","k","-">>

\* get_prompt_optimizer returns an optimizer (not None); createFails: create_prompt_optimizer raises
HasOptimizer(key, createFails) == ~IsBlank(key) /\ StartsWithSk(key) /\ ~createFails

\* what json.loads(feedback_json) gives: a JSONDecodeError, or the parsed value;
\* a parsed list is the sequence of the key sets of its items
FeedbackInputs == {
    [parses |-> FALSE, isList |-> FALSE, items |-> <<>>],
    [parses |-> TRUE, isList |-> FALSE, items |-> <<>>],
    [parses |-> TRUE, isList |-> TRUE, items |-> <<>>],
    [parses |-> TRUE, isList |-> TRUE, items |-> <<{"question", "response", "feedback"}>>],
    [parses |-> TRUE, isList |-> TRUE, items |-> <<{"question", "response"}>>],
    [parses |-> TRUE, isList |-> TRUE,
     items |-> <<{"question", "response", "feedback"}, {"question", "feedback"}>>] }

\* the loop over feedback_list completes: iterable, and every item has the three keys
TrajectoriesBuilt(fb) ==
    /\ fb.isList
    /\ \A i \in 1..Len(fb.items) : {"question", "response", "feedback"} \subseteq fb.items[i]

\* the prompts the optimizer can return
BetterPrompts == {"better1", "better2"}

DefaultPrompt == "You are a helpful AI assistant"

NoOptRet == [op |-> "none", failed |-> FALSE, raised |-> FALSE, text |-> "", before |-> <<>>]

\* optimization_entry of optimize_prompt
SingleEntry(history, better) ==
    [id |-> Len(history), optimized_prompt |-> better, type |-> "single", timestamp |-> optClock]

\* optimization_entry of batch_optimize_prompt
BatchEntry(history, better) ==
    [id |-> Len(history), optimized_prompt |-> better, type |-> "batch", timestamp |-> optClock]

\* a handler that records its entry before it knows the optimizer succeeded
HistoryAfterCallEager(history, succeeded, entry) == Append(history, entry)

\* optimization_history after an optimization call: the entry is appended after
\* the awaited optimizer returned, inside the try block
HistoryAfterCall(history, succeeded, entry) ==
    IF succeeded THEN Append(history, entry) ELSE history

\* the text optimize_prompt returns
OptimizeText(hasOptimizer, optimizerFails) ==
    IF ~hasOptimizer THEN "Error: Invalid or missing OpenAI API key provided."
    ELSE IF optimizerFails THEN "Optimization Error"
    ELSE "Optimization Complete!"

\* the text batch_optimize_prompt returns
BatchText(hasOptimizer, fb, optimizerFails) ==
    IF ~hasOptimizer THEN "Error: Invalid or missing OpenAI API key provided."
    ELSE IF ~fb.parses THEN "Invalid JSON format for feedback data"
    ELSE IF ~TrajectoriesBuilt(fb) \/ optimizerFails THEN "Error in batch optimization"
    ELSE "Batch optimized"

\* optimize_prompt(base_prompt, user_question, assistant_response, feedback, openai_api_key)
OptimizePrompt(key, createFails, optimizerFails, better) ==
    LET hasOptimizer == HasOptimizer(key, createFails)
        succeeded == hasOptimizer /\ ~optimizerFails
    IN /\ optClock <= MaxOpts
       /\ optimization_history' =
             HistoryAfterCall(optimization_history, succeeded,
                              SingleEntry(optimization_history, better))
       /\ history_file' = IF succeeded THEN optimization_history' ELSE history_file
       /\ recorded' = IF succeeded THEN Append(recorded, better) ELSE recorded
       /\ optClock' = optClock + 1
       /\ optRet' = [op |-> "optimize_prompt", failed |-> ~succeeded, raised |-> FALSE,
                     text |-> OptimizeText(hasOptimizer, optimizerFails),
                     before |-> optimization_history]
       /\ UNCHANGED <<ragVars, memVars, agentVars, vsVars, pageVars>>

\* the file after batch_optimize_prompt: the handler does not call save_optimization_history
FileAfterBatch(file, history) == file

\* batch_optimize_prompt(base_prompt, feedback_json, openai_api_key)
BatchOptimizePrompt(key, createFails, fb, optimizerFails, better) ==
    LET hasOptimizer == HasOptimizer(key, createFails)
        succeeded == hasOptimizer /\ fb.parses /\ TrajectoriesBuilt(fb) /\ ~optimizerFails
    IN /\ optClock <= MaxOpts
       /\ optimization_history' =
             HistoryAfterCall(optimization_history, succeeded,
                              BatchEntry(optimization_history, better))
       /\ history_file' = FileAfterBatch(history_file, optimization_history')
       /\ recorded' = IF succeeded THEN Append(recorded, better) ELSE recorded
       /\ optClock' = optClock + 1
       /\ optRet' = [op |-> "batch_optimize_prompt", failed |-> ~succeeded, raised |-> FALSE,
                     text |-> BatchText(hasOptimizer, fb, optimizerFails),
                     before |-> optimization_history]
       /\ UNCHANGED <<ragVars, memVars, agentVars, vsVars, pageVars>>

\* the prompt get_latest_optimized_prompt returns for a loaded history
LatestPrompt(history) ==
    IF history = <<>> THEN DefaultPrompt ELSE history[Len(history)].optimized_prompt

\* get_latest_optimized_prompt(): reloads optimization_history from the file
GetLatestOptimizedPrompt ==
    /\ optimization_history' = history_file
    /\ optRet' = [op |-> "get_latest_optimized_prompt", failed |-> FALSE, raised |-> FALSE,
                  text |-> LatestPrompt(history_file), before |-> optimization_history]
    /\ UNCHANGED <<history_file, optClock, recorded>>
    /\ UNCHANGED <<ragVars, memVars, agentVars, vsVars, pageVars>>

\* clear_optimizations()
ClearOptimizations ==
    /\ optimization_history' = <<>>
    /\ history_file' = <<>>
    /\ recorded' = <<>>
    /\ optRet' = [op |-> "clear_optimizations", failed |-> FALSE, raised |-> FALSE,
                  text |-> "Cleared", before |-> optimization_history]
    /\ UNCHANGED optClock
    /\ UNCHANGED <<ragVars, memVars, agentVars, vsVars, pageVars>>

-----------------------------------------------------------------------------
(* RAGHelper.build_vectorstore *)

FileNames == {
    <<"a",".","P","D","F">>,
    <<"b",".","t","x","t">>,
    <<"c",".","d","o","c","x">>,
    <<"d",".","c","s","v">>,
    <<".","p","d","f">> }

\* what loader.load() does for a file: raises, or returns that many documents
LoadOutcomes == {"raise", "empty", "one"}

UploadedFiles == [name : FileNames, load : LoadOutcomes]

\* index of the last "." of a name, 0 if there is none
LastDot(name) ==
    IF \E i \in 1..Len(name) : name[i] = "."
    THEN CHOOSE i \in 1..Len(name) :
            name[i] = "." /\ \A j \in (i + 1)..Len(name) : name[j] # "."
    ELSE 0

\* os.path.splitext(name)[1]: leading dots of the name do not start an extension
SplitExt(name) ==
    LET d == LastDot(name) IN
    IF d = 0 \/ \A j \in 1..(d - 1) : name[j] = "." THEN <<>>
    ELSE SubSeq(name, d, Len(name))

\* extension returned by save_file
Extension(file) == Lower(SplitExt(file.name))

\* a loader is picked for the file: .pdf, .txt, and .docx when Docx2txtLoader was imported
HasLoader(file, docx) ==
    \/ Extension(file) = <<".","p","d","f">>
    \/ Extension(file) = <<".","t","x","t">>
    \/ (Extension(file) = <<".","d","o","c","x">> /\ docx)

\* the documents loader.load() returns for the file at position idx
LoadedDocs(file, idx) == IF file.load = "one" THEN <<[file |-> idx]>> ELSE <<>>

RECURSIVE LoadAllAbortOnError(_, _, _, _)
\* a loop without the try/except around loader.load(): the first failing file ends it
LoadAllAbortOnError(files, idx, docx, docs) ==
    IF idx > Len(files) THEN docs
    ELSE IF ~HasLoader(files[idx], docx) THEN LoadAllAbortOnError(files, idx + 1, docx, docs)
    ELSE IF files[idx].load = "raise" THEN docs
    ELSE LoadAllAbortOnError(files, idx + 1, docx, docs \o LoadedDocs(files[idx], idx))

RECURSIVE LoadAll(_, _, _, _)
\* for file in files: docs after the loop, starting at position idx with docs
LoadAll(files, idx, docx, docs) ==
    IF idx > Len(files) THEN docs
    ELSE IF ~HasLoader(files[idx], docx) THEN LoadAll(files, idx + 1, docx, docs)
    ELSE IF files[idx].load = "raise" THEN LoadAll(files, idx + 1, docx, docs)
    ELSE LoadAll(files, idx + 1, docx, docs \o LoadedDocs(files[idx], idx))

NoVsResult == [done |-> FALSE, raised |-> "none", docs |-> <<>>]

\* RAGHelper.build_vectorstore(files, api_key); embedFails: the embedding of the
\* chunks (OpenAIEmbeddings / FAISS.from_documents) raises
BuildVectorstore(embedFails) ==
    /\ ~vsResult.done
    /\ LET docs == LoadAll(vsFiles, 1, docxLoader, <<>>) IN
       vsResult' = [done |-> TRUE,
                    raised |-> IF docs = <<>> THEN "ValueError: No documents loaded!"
                               ELSE IF embedFails THEN "embedding error"
                               ELSE "none",
                    docs |-> docs]
    /\ UNCHANGED <<vsFiles, docxLoader>>
    /\ UNCHANGED <<ragVars, memVars, agentVars, optVars, pageVars>>

-----------------------------------------------------------------------------
(* Streamlit chat pages *)

NoSession == [files |-> {}, app |-> <<>>, messages |-> <<>>, processing |-> FALSE]

NoWidgets == [uploaded |-> {}, chatInputShown |-> TRUE, configured |-> TRUE]

NoRun == [pc |-> "idle", prompt |-> "", rerun |-> FALSE, error |-> FALSE,
          loopsCreated |-> 0, asyncResult |-> "none"]

NoObs == [attempts |-> 0, invoked |-> FALSE, app |-> {}, uploaded |-> {}]

Pages == {"rag", "agent", "mcp"}

\* names of the files the uploader can hold
FileSets == SUBSET {"a.pdf", "b.pdf"}

Prompts == {"q"}

Replies == {"answer"}

ConfigMissingText == "Configuration missing. Please check API key and MCP URL."

AgentErrorText == "MCP Agent Error"

\* a script run starts: triggered by a widget, by st.rerun() or by the first page load
StartRun(prompt) ==
    [pc |-> "top", prompt |-> prompt, rerun |-> FALSE, error |-> FALSE,
     loopsCreated |-> 0, asyncResult |-> "none"]

\* the script run ends: by st.rerun(), by return, by an uncaught exception or at its last line
EndRun(rerun, error) ==
    [run EXCEPT !.pc = "idle", !.prompt = "", !.rerun = rerun, !.error = error]

\* messages and messages[-1]["role"] == "user" and not processing
Pending ==
    /\ session_state.messages # <<>>
    /\ session_state.messages[Len(session_state.messages)].role = "user"
    /\ ~session_state.processing

UserMessages ==
    {i \in 1..Len(session_state.messages) : session_state.messages[i].role = "user"}

\* current != prev or st.session_state.rag_app is None
NeedsBuild ==
    widgets.uploaded # session_state.files \/ session_state.app = <<>>

(* ---- what the user and the Streamlit runtime do between script runs ---- *)

\* st.rerun() was called, or the page is loaded: the script runs again
ScriptRerun ==
    /\ run.pc = "idle" /\ run.rerun
    /\ run' = StartRun("")
    /\ widgets' = [widgets EXCEPT !.chatInputShown = FALSE]
    /\ UNCHANGED <<page, session_state, openLoops, obs>>
    /\ UNCHANGED <<ragVars, memVars, agentVars, optVars, vsVars>>

\* the user changes the content of the file uploader
UserUpload(files) ==
    /\ run.pc = "idle" /\ ~run.rerun
    /\ page = "rag"
    /\ files # widgets.uploaded
    /\ run' = StartRun("")
    /\ widgets' = [widgets EXCEPT !.uploaded = files, !.chatInputShown = FALSE]
    /\ UNCHANGED <<page, session_state, openLoops, obs>>
    /\ UNCHANGED <<ragVars, memVars, agentVars, optVars, vsVars>>

\* the user submits a prompt in the chat input
UserPrompt(prompt) ==
    /\ run.pc = "idle" /\ ~run.rerun
    /\ widgets.chatInputShown
    /\ Cardinality(UserMessages) < MaxPrompts
    /\ run' = StartRun(prompt)
    /\ widgets' = [widgets EXCEPT !.chatInputShown = FALSE]
    /\ UNCHANGED <<page, session_state, openLoops, obs>>
    /\ UNCHANGED <<ragVars, memVars, agentVars, optVars, vsVars>>

\* any other interaction reruns the script; on the MCP page the sidebar keys may change
UserRerun(configured) ==
    /\ run.pc = "idle" /\ ~run.rerun
    /\ page # "mcp" => configured = widgets.configured
    /\ run' = StartRun("")
    /\ widgets' = [widgets EXCEPT !.configured = configured, !.chatInputShown = FALSE]
    /\ UNCHANGED <<page, session_state, openLoops, obs>>
    /\ UNCHANGED <<ragVars, memVars, agentVars, optVars, vsVars>>

(* ---- the script run: CustomDataChatbot.main, ChatbotTools.main, main ---- *)

\* no file uploaded: the welcome screen, then return
RagNoFiles ==
    /\ run.pc = "top" /\ page = "rag"
    /\ widgets.uploaded = {}
    /\ run' = EndRun(FALSE, FALSE)
    /\ UNCHANGED <<page, session_state, widgets, openLoops, obs>>
    /\ UNCHANGED <<ragVars, memVars, agentVars, optVars, vsVars>>

\* rag_uploaded_files = uploaded_files; rag_app = self.setup_graph(uploaded_files)
RagBuildOk ==
    /\ run.pc = "top" /\ page = "rag"
    /\ widgets.uploaded # {} /\ NeedsBuild
    /\ session_state' = [session_state EXCEPT !.files = widgets.uploaded,
                                              !.app = <<widgets.uploaded>>]
    /\ run' = [run EXCEPT !.pc = "check"]
    /\ UNCHANGED <<page, widgets, openLoops, obs>>
    /\ UNCHANGED <<ragVars, memVars, agentVars, optVars, vsVars>>

\* setup_graph raises (build_vectorstore: "No documents loaded!", embedding
\* error): rag_uploaded_files is already assigned, rag_app is not, the run ends
RagBuildRaise ==
    /\ run.pc = "top" /\ page = "rag"
    /\ widgets.uploaded # {} /\ NeedsBuild
    /\ session_state' = [session_state EXCEPT !.files = widgets.uploaded]
    /\ run' = EndRun(FALSE, TRUE)
    /\ UNCHANGED <<page, widgets, openLoops, obs>>
    /\ UNCHANGED <<ragVars, memVars, agentVars, optVars, vsVars>>

\* same file names as before and an app exists: the app is kept
RagKeepApp ==
    /\ run.pc = "top" /\ page = "rag"
    /\ widgets.uploaded # {} /\ ~NeedsBuild
    /\ run' = [run EXCEPT !.pc = "check"]
    /\ UNCHANGED <<page, session_state, widgets, openLoops, obs>>
    /\ UNCHANGED <<ragVars, memVars, agentVars, optVars, vsVars>>

\* the agent pages have no upload section
PageTop ==
    /\ run.pc = "top" /\ page # "rag"
    /\ run' = [run EXCEPT !.pc = "check"]
    /\ UNCHANGED <<page, session_state, widgets, openLoops, obs>>
    /\ UNCHANGED <<ragVars, memVars, agentVars, optVars, vsVars>>

\* the last message is not an unanswered user message
NothingToAnswer ==
    /\ run.pc = "check" /\ ~Pending
    /\ run' = [run EXCEPT !.pc = "input"]
    /\ UNCHANGED <<page, session_state, widgets, openLoops, obs>>
    /\ UNCHANGED <<ragVars, memVars, agentVars, optVars, vsVars>>

\* processing = True; the response is generated by the RAG graph or by the agent
StartProcessing ==
    /\ run.pc = "check" /\ Pending
    /\ page = "mcp" => widgets.configured
    /\ obs.attempts < MaxAttempts
    /\ session_state' = [session_state EXCEPT !.processing = TRUE]
    /\ run' = [run EXCEPT !.pc = IF page = "rag" THEN "invoke" ELSE "new_loop"]
    /\ UNCHANGED <<page, widgets, openLoops, obs>>
    /\ UNCHANGED <<ragVars, memVars, agentVars, optVars, vsVars>>

\* MCP page without API key or server URL: the reply is the configuration text
McpUnconfigured ==
    /\ run.pc = "check" /\ Pending
    /\ page = "mcp" /\ ~widgets.configured
    /\ session_state' = [session_state EXCEPT
            !.messages = Append(@, [role |-> "assistant", content |-> ConfigMissingText]),
            !.processing = FALSE]
    /\ run' = EndRun(TRUE, FALSE)
    /\ UNCHANGED <<page, widgets, openLoops, obs>>
    /\ UNCHANGED <<ragVars, memVars, agentVars, optVars, vsVars>>

\* what is known of a backend invocation: which app answered, with which files uploaded
Invoked ==
    [attempts |-> obs.attempts + 1, invoked |-> TRUE,
     app |-> IF page = "rag" THEN session_state.app[1] ELSE {},
     uploaded |-> widgets.uploaded]

\* rag_app.invoke(...) returns: the answer is appended, st.rerun()
RagInvokeOk(answer) ==
    /\ run.pc = "invoke"
    /\ obs' = Invoked
    /\ session_state' = [session_state EXCEPT
            !.messages = Append(@, [role |-> "assistant", content |-> answer]),
            !.processing = FALSE]
    /\ run' = EndRun(TRUE, FALSE)
    /\ UNCHANGED <<page, widgets, openLoops>>
    /\ UNCHANGED <<ragVars, memVars, agentVars, optVars, vsVars>>

\* rag_app.invoke(...) raises: except Exception: processing = False; st.error; st.rerun()
RagInvokeRaise ==
    /\ run.pc = "invoke"
    /\ obs' = Invoked
    /\ session_state' = [session_state EXCEPT !.processing = FALSE]
    /\ run' = EndRun(TRUE, TRUE)
    /\ UNCHANGED <<page, widgets, openLoops>>
    /\ UNCHANGED <<ragVars, memVars, agentVars, optVars, vsVars>>

\* loop = asyncio.new_event_loop(); asyncio.set_event_loop(loop)
NewEventLoop ==
    /\ run.pc = "new_loop"
    /\ openLoops' = openLoops + 1
    /\ run' = [run EXCEPT !.pc = "run_async", !.loopsCreated = @ + 1]
    /\ UNCHANGED <<page, session_state, widgets, obs>>
    /\ UNCHANGED <<ragVars, memVars, agentVars, optVars, vsVars>>

\* loop.run_until_complete(...) returns the response
AsyncOk ==
    /\ run.pc = "run_async"
    /\ obs' = Invoked
    /\ run' = [run EXCEPT !.pc = "finally", !.asyncResult = "ok"]
    /\ UNCHANGED <<page, session_state, widgets, openLoops>>
    /\ UNCHANGED <<ragVars, memVars, agentVars, optVars, vsVars>>

\* loop.run_until_complete(...) raises
AsyncRaise ==
    /\ run.pc = "run_async"
    /\ obs' = Invoked
    /\ run' = [run EXCEPT !.pc = "finally", !.asyncResult = "raised"]
    /\ UNCHANGED <<page, session_state, widgets, openLoops>>
    /\ UNCHANGED <<ragVars, memVars, agentVars, optVars, vsVars>>

\* a close placed after the call instead of in a finally clause
LoopsAfterCallNoFinally(loops, asyncResult) ==
    IF asyncResult = "raised" THEN loops ELSE loops - 1

\* finally: loop.close()
LoopsAfterCall(loops, asyncResult) == loops - 1

CloseLoop ==
    /\ run.pc = "finally"
    /\ openLoops' = LoopsAfterCall(openLoops, run.asyncResult)
    /\ run' = [run EXCEPT !.pc = "after"]
    /\ UNCHANGED <<page, session_state, widgets, obs>>
    /\ UNCHANGED <<ragVars, memVars, agentVars, optVars, vsVars>>

\* the assistant reply is appended: the response, or on the MCP page the
\* error text of the inner except clause; processing = False; st.rerun()
ReplyAppend(reply) ==
    /\ run.pc = "after"
    /\ run.asyncResult = "ok" \/ page = "mcp"
    /\ session_state' = [session_state EXCEPT
            !.messages = Append(@, [role |-> "assistant",
                                    content |-> IF run.asyncResult = "ok" THEN reply
                                                ELSE AgentErrorText]),
            !.processing = FALSE]
    /\ run' = EndRun(TRUE, FALSE)
    /\ UNCHANGED <<page, widgets, openLoops, obs>>
    /\ UNCHANGED <<ragVars, memVars, agentVars, optVars, vsVars>>

\* Chatbot Agent page: the exception reaches the outer except clause:
\* processing = False; st.error; st.rerun()
AgentExcept ==
    /\ run.pc = "after"
    /\ run.asyncResult = "raised" /\ page = "agent"
    /\ session_state' = [session_state EXCEPT !.processing = FALSE]
    /\ run' = EndRun(TRUE, TRUE)
    /\ UNCHANGED <<page, widgets, openLoops, obs>>
    /\ UNCHANGED <<ragVars, memVars, agentVars, optVars, vsVars>>

\* if prompt := st.chat_input(...): the user message is appended, st.rerun()
ChatInputSubmit ==
    /\ run.pc = "input" /\ run.prompt # ""
    /\ session_state' = [session_state EXCEPT
            !.messages = Append(@, [role |-> "user", content |-> run.prompt])]
    /\ obs' = NoObs
    /\ run' = EndRun(TRUE, FALSE)
    /\ UNCHANGED <<page, widgets, openLoops>>
    /\ UNCHANGED <<ragVars, memVars, agentVars, optVars, vsVars>>

\* no prompt in this run: the script ends with the chat input on the page
ChatInputWait ==
    /\ run.pc = "input" /\ run.prompt = ""
    /\ run' = EndRun(FALSE, FALSE)
    /\ widgets' = [widgets EXCEPT !.chatInputShown = TRUE]
    /\ UNCHANGED <<page, session_state, openLoops, obs>>
    /\ UNCHANGED <<ragVars, memVars, agentVars, optVars, vsVars>>

-----------------------------------------------------------------------------
(* Specifications *)

Limits == 0..MaxLimit

AgentIdle ==
    /\ global_agent = None
    /\ agentObjs = <<>>
    /\ calls = [c \in Callers |-> IdleCall]
    /\ returns = <<>>
    /\ initStarted = 0


VsIdle ==
    /\ vsFiles = <<>>
    /\ docxLoader = TRUE
    /\ vsResult = NoVsResult

PageIdle ==
    /\ page = "rag"
    /\ session_state = NoSession
    /\ widgets = NoWidgets
    /\ run = NoRun
    /\ openLoops = 0
    /\ obs = NoObs

OptIdle ==
    /\ optimization_history = <<>>
    /\ history_file = <<>>
    /\ optClock = 1
    /\ recorded = <<>>
    /\ optRet = NoOptRet

MemIdle ==
    /\ memories = <<>>
    /\ max_messages = 1
    /\ messages = <<>>
    /\ added = <<>>
    /\ clock = 1
    /\ store = <<>>
    /\ ret = NoRet
    /\ log = <<>>

\* a ConversationMemory(session_id, max_messages) used on its own
InitConv ==
    /\ InitRAG
    /\ AgentIdle
    /\ OptIdle /\ VsIdle /\ PageIdle
    /\ memories = <<>>
    /\ max_messages \in 0..MaxMaxMessages
    /\ messages = <<>>
    /\ added = <<>>
    /\ clock = 1
    /\ store = <<>>
    /\ ret = NoRet
    /\ log = <<>>

NextConv ==
    \/ \E msg \in MessageInputs : ConvAddMessage(msg)
    \/ ConvClearMemory
    \/ \E limit \in Limits : ConvGetRelevantContext(limit)

SpecConv == InitConv /\ [][NextConv]_vars

\* MemoryManager.__init__: conversation memory when enable_conversation, semantic
\* memory when enable_semantic, an api_key is given and its construction succeeds.
\* The manager builds ConversationMemory(session_id), whose default max_messages
\* is positive; it is drawn from 1..MaxMaxMessages.
InitMgr ==
    /\ InitRAG
    /\ AgentIdle
    /\ OptIdle /\ VsIdle /\ PageIdle
    /\ memories \in {<<>>, <<"conversation">>, <<"semantic">>, <<"conversation", "semantic">>}
    /\ max_messages \in 1..MaxMaxMessages
    /\ messages = <<>>
    /\ added = <<>>
    /\ clock = 1
    /\ store = <<>>
    /\ ret = NoRet
    /\ log = <<>>

NextMgr ==
    \/ \E msg \in MessageInputs, o \in SemOutcomes : MgrAddMessage(msg, o)
    \/ \E limit \in Limits, f \in BOOLEAN : MgrGetComprehensiveContext(limit, f)
    \/ \E cl \in Limits, sl \in Limits, f \in BOOLEAN : MgrGetUnifiedContext(cl, sl, f)
    \/ \E f \in BOOLEAN : MgrClearAllMemory(f)

SpecMgr == InitMgr /\ [][NextMgr]_vars

InitAgent == InitRAG /\ MemIdle /\ AgentIdle /\ OptIdle /\ VsIdle /\ PageIdle

NextAgent ==
    \/ \E c \in Callers, key \in ApiKeys, url \in ServerUrls : GetAgentEnter(c, key, url)
    \/ \E c \in Callers : InitializeOk(c)
    \/ \E c \in Callers : InitializeRaise(c)

SpecAgent == InitAgent /\ [][NextAgent]_vars

\* the server process starts: optimization_history = load_optimization_history();
\* the file is absent or holds the entries an earlier process saved
InitOpt ==
    /\ InitRAG /\ MemIdle /\ AgentIdle /\ VsIdle /\ PageIdle
    /\ history_file \in {<<>>,
                         <<[id |-> 0, optimized_prompt |-> "better1", type |-> "single",
                            timestamp |-> 0]>>}
    /\ optimization_history = history_file
    /\ recorded = [i \in 1..Len(history_file) |-> history_file[i].optimized_prompt]
    /\ optClock = 1
    /\ optRet = NoOptRet

NextOpt ==
    \/ \E key \in OptApiKeys, cf \in BOOLEAN, of \in BOOLEAN, b \in BetterPrompts :
          OptimizePrompt(key, cf, of, b)
    \/ \E key \in OptApiKeys, cf \in BOOLEAN, fb \in FeedbackInputs,
          of \in BOOLEAN, b \in BetterPrompts : BatchOptimizePrompt(key, cf, fb, of, b)
    \/ GetLatestOptimizedPrompt
    \/ ClearOptimizations

SpecOpt == InitOpt /\ [][NextOpt]_vars

\* a call of build_vectorstore with up to MaxFiles uploaded files
InitVs ==
    /\ InitRAG /\ MemIdle /\ AgentIdle /\ OptIdle /\ PageIdle
    /\ vsFiles \in SeqsUpTo(UploadedFiles, MaxFiles)
    /\ docxLoader \in BOOLEAN
    /\ vsResult = NoVsResult

NextVs == \E embedFails \in BOOLEAN : BuildVectorstore(embedFails)

SpecVs == InitVs /\ [][NextVs]_vars

\* a page is opened: empty session state, the first script run is due
InitPage ==
    /\ InitRAG /\ MemIdle /\ AgentIdle /\ OptIdle /\ VsIdle
    /\ page \in Pages
    /\ session_state = NoSession
    /\ widgets \in {[NoWidgets EXCEPT !.chatInputShown = FALSE, !.configured = c] :
                       c \in IF page = "mcp" THEN BOOLEAN ELSE {TRUE}}
    /\ run = [NoRun EXCEPT !.rerun = TRUE]
    /\ openLoops = 0
    /\ obs = NoObs

NextPage ==
    \/ ScriptRerun
    \/ \E files \in FileSets : UserUpload(files)
    \/ \E prompt \in Prompts : UserPrompt(prompt)
    \/ \E configured \in BOOLEAN : UserRerun(configured)
    \/ RagNoFiles
    \/ RagBuildOk
    \/ RagBuildRaise
    \/ RagKeepApp
    \/ PageTop
    \/ NothingToAnswer
    \/ StartProcessing
    \/ McpUnconfigured
    \/ \E answer \in Replies : RagInvokeOk(answer)
    \/ RagInvokeRaise
    \/ NewEventLoop
    \/ AsyncOk
    \/ AsyncRaise
    \/ CloseLoop
    \/ \E reply \in Replies : ReplyAppend(reply)
    \/ AgentExcept
    \/ ChatInputSubmit
    \/ ChatInputWait

SpecPage == InitPage /\ [][NextPage]_vars

-----------------------------------------------------------------------------
(* Properties *)

GraphOrder == <<"classify_mode", "retrieve", "generate">>

IsPrefixOf(a, b) == Len(a) <= Len(b) /\ SubSeq(b, 1, Len(a)) = a

C2_ClassifyMode ==
    Len(trace) >= 1 =>
        LET q == Lower(input.question)
            hasSummary == \E w \in SUMMARY_HINTS : Contains(q, w)
            hasFact == \E w \in FACT_HINTS : Contains(q, w)
        IN state.mode = IF hasSummary /\ ~hasFact THEN "summary" ELSE "fact"

C2_Witness ==
    /\ pc = "retrieve"
    /\ input.mode = "summary"
    /\ state.mode = "fact"
    /\ ~AnyHint(Lower(input.question), FACT_HINTS)

\* C3: after retrieve has returned, documents is the retriever's result cut
\* to its first k entries, in the same order, with k = 8 in summary mode and
\* k = 3 otherwise.
C3_RetrieveTopK ==
    (Len(trace) >= 2 /\ pc # "raised") \/ Len(trace) = 3 =>
        LET k == IF state.mode = "summary" THEN 8 ELSE 3
            docs == state.documents
        IN /\ Len(docs) <= k
           /\ Len(docs) = IF Len(retrieved) < k THEN Len(retrieved) ELSE k
           /\ \A i \in 1..Len(docs) : docs[i] = retrieved[i]

C3_Witness ==
    /\ pc = "generate"
    /\ state.mode = "summary"
    /\ Len(retrieved) > 8
    /\ Len(state.documents) = 8

\* C4: no LLM call is made before generate; when generate has run, the LLM
\* was called exactly once if the joined page contents are non-blank, and not
\* at all if they are blank, in which case the generation is the fixed
\* "couldn't find enough information" text.
C4_GenerateCallsLLM ==
    LET ctx == Context(state)
        blank == \A i \in 1..Len(ctx) : ctx[i] \in Whitespace
    IN /\ Len(trace) < 3 => llmCalls = 0
       /\ Len(trace) = 3 =>
            IF blank
            THEN llmCalls = 0 /\ pc = "END" /\ state.generation = NoInfoText
            ELSE llmCalls = 1

C4_Witness ==
    /\ pc = "END"
    /\ Len(state.documents) = 1
    /\ state.documents[1].page_content # <<>>
    /\ state.generation = NoInfoText
    /\ llmCalls = 0

\* C5: after MemoryManager.add_message, add_message of every enabled memory
\* was invoked exactly once, conversation before semantic, and with
\* conversation memory enabled the message is the last stored entry.
C5_AddMessageFanOut ==
    ret.op = "add_message" =>
        /\ \A t \in {"conversation", "semantic"} :
              Cardinality({i \in 1..Len(log) : log[i] = t}) = IF Enabled(t) THEN 1 ELSE 0
        /\ Len(log) = 2 => log = <<"conversation", "semantic">>
        /\ Enabled("conversation") =>
              /\ messages # <<>>
              /\ messages[Len(messages)].role = ret.args[1].role
              /\ messages[Len(messages)].content = ret.args[1].content
              /\ messages[Len(messages)].timestamp =
                    IF ret.args[1].timestamp = NoTimestamp THEN clock - 1
                    ELSE ret.args[1].timestamp

C5_Witness ==
    /\ ret.op = "add_message"
    /\ memories = <<"conversation", "semantic">>
    /\ Len(added) > max_messages
    /\ store # <<>>

\* C6: get_comprehensive_context does not raise, returns one entry per
\* enabled memory type, maps a type whose retrieval failed to the empty list
\* and every other type to what that memory returns on its own.
C6_ComprehensiveContext ==
    ret.op = "get_comprehensive_context" =>
        /\ ~ret.raised
        /\ [i \in 1..Len(ret.value) |-> ret.value[i].type] = memories
        /\ \A i \in 1..Len(ret.value) :
              IF ret.value[i].type \in ret.failed THEN ret.value[i].context = <<>>
              ELSE IF ret.value[i].type = "conversation"
                   THEN ret.value[i].context = ConvContext(messages, ret.args[1])
                   ELSE ret.value[i].context = SemContext(store, ret.args[1])

C6_Witness ==
    /\ ret.op = "get_comprehensive_context"
    /\ memories = <<"conversation", "semantic">>
    /\ ret.failed = {"conversation"}
    /\ ret.value[2].context # <<>>

\* C7: get_unified_context returns at most conversation_limit conversation
\* entries, first, then at most semantic_limit semantic entries, none of them
\* equal to an earlier entry, so at most conversation_limit + semantic_limit
\* entries.
C7_UnifiedContextWithinLimits ==
    (ret.op = "get_unified_context" /\ ~ret.raised) =>
        LET v == ret.value
            nConv == Cardinality({i \in 1..Len(v) : v[i].type = "conversation"})
            nSem == Cardinality({i \in 1..Len(v) : v[i].type = "semantic"})
        IN /\ nConv <= ret.args[1]
           /\ nSem <= ret.args[2]
           /\ \A i \in 1..nConv : v[i].type = "conversation"
           /\ \A i \in 1..Len(v) : \A j \in (i + 1)..Len(v) :
                 v[j].type = "semantic" => v[i] # v[j]
           /\ Len(v) <= ret.args[1] + ret.args[2]

\* C8: with max_messages >= 1 a ConversationMemory holds at most
\* max_messages messages, and they are the last ones added since the last
\* clear, in the order they were added.
C8_ConversationBounded ==
    max_messages >= 1 =>
        LET n == IF Len(added) < max_messages THEN Len(added) ELSE max_messages IN
        /\ Len(messages) <= max_messages
        /\ messages = SubSeq(added, Len(added) - n + 1, Len(added))

C8_Witness ==
    /\ max_messages >= 1
    /\ Len(added) > max_messages
    /\ ret.op = "conv.add_message"

\* C9: once a get_agent call has returned, no step constructs an agent or
\* makes get_agent call initialize, the global keeps the returned instance,
\* and every call returns that instance.
C9_Singleton ==
    [][returns # <<>> =>
          /\ Len(agentObjs') = Len(agentObjs)
          /\ initStarted' = initStarted
          /\ global_agent' = returns[1].agent
          /\ \A i \in 1..Len(returns') : returns'[i].agent = returns[1].agent]_vars

C9_Witness ==
    /\ Len(returns) >= 2
    /\ returns[2].args # returns[1].args
    /\ returns[2].agent = returns[1].agent

\* C10: every agent get_agent has returned was initialized when it was
\* returned.
C10_ReturnedAgentInitialized ==
    \A i \in 1..Len(returns) : returns[i].initialized

\* C11: a script run that processes a query through an async agent creates
\* exactly one event loop; the loop is closed when the run comes to append
\* the reply or to handle the exception, whether the async call returned or
\* raised; no loop is open between script runs.
C11_LoopClosedBeforeReply ==
    /\ run.loopsCreated <= 1
    /\ run.pc \in {"run_async", "finally"} => (run.loopsCreated = 1 /\ openLoops = 1)
    /\ run.pc = "after" => (run.loopsCreated = 1 /\ openLoops = 0)
    /\ run.pc = "idle" => openLoops = 0

C11_Witness ==
    /\ page = "mcp"
    /\ run.pc = "idle" /\ run.loopsCreated = 1
    /\ session_state.messages # <<>>
    /\ session_state.messages[Len(session_state.messages)].content = AgentErrorText
    /\ openLoops = 0

\* C12: the backend (RAG graph or agent) is invoked at most once for a user
\* query: after a failed attempt it is not invoked again until the user
\* submits new input.
C12_NoRetry == obs.attempts <= 1

\* C13: whenever the RAG page answers a query, the rag_app it invokes was
\* built from the set of file names that is uploaded at that moment.
C13_AppMatchesUploadedFiles ==
    (page = "rag" /\ obs.invoked) => obs.app = obs.uploaded

C15_FileEqualsHistory ==
    optRet.op \in {"optimize_prompt", "batch_optimize_prompt", "clear_optimizations"} =>
        history_file = optimization_history

\* C16: get_latest_optimized_prompt returns the optimized prompt of the last
\* successful optimization since the last clear, or the default prompt when
\* there is none, and leaves the recorded optimizations as they were.
C16_LatestOptimizedPrompt ==
    optRet.op = "get_latest_optimized_prompt" =>
        /\ optRet.text = IF recorded = <<>> THEN DefaultPrompt ELSE recorded[Len(recorded)]
        /\ optimization_history = optRet.before

\* C17: for limit >= 0, get_relevant_context returns at most limit entries:
\* the min(limit, stored) newest messages, oldest first, each of type
\* "conversation".
C17_RelevantContextWithinLimit ==
    (ret.op = "conv.get_relevant_context" /\ ~ret.raised) =>
        LET limit == ret.args[1]
            n == IF limit < Len(messages) THEN limit ELSE Len(messages)
        IN /\ Len(ret.value) <= limit
           /\ Len(ret.value) = n
           /\ \A i \in 1..Len(ret.value) :
                 /\ ret.value[i].type = "conversation"
                 /\ Len(messages) - n + i \in 1..Len(messages)
                 /\ ret.value[i].role = messages[Len(messages) - n + i].role
                 /\ ret.value[i].content = messages[Len(messages) - n + i].content
                 /\ ret.value[i].timestamp = messages[Len(messages) - n + i].timestamp

\* C18: an optimization call that fails returns an error text, does not
\* raise, and leaves optimization_history as it was before the call.
C18_FailedCallLeavesHistory ==
    (optRet.op \in {"optimize_prompt", "batch_optimize_prompt"} /\ optRet.failed) =>
        /\ ~optRet.raised
        /\ optRet.text \in {"Error: Invalid or missing OpenAI API key provided.",
                            "Optimization Error",
                            "Invalid JSON format for feedback data",
                            "Error in batch optimization"}
        /\ optimization_history = optRet.before

C18_Witness ==
    /\ optRet.op = "batch_optimize_prompt"
    /\ optRet.failed
    /\ optRet.text = "Error in batch optimization"
    /\ optimization_history # <<>>

-----------------------------------------------------------------------------

Init == InitRAG /\ MemIdle /\ AgentIdle /\ OptIdle /\ VsIdle /\ PageIdle

Next == NextRAG

Spec == Init /\ [][Next]_vars

====
